---- MODULE Spec2Model ----
(***************************************************************************)
(* Approximate equality of floating-point values (crate `approx`,          *)
(* src/lib.rs): the ApproxEq implementations for the two float widths and  *)
(* the Relative / Ulps configurators that route to them.                   *)
(*                                                                         *)
(* Floats are modelled bit-exactly as IEEE-754 binary interchange formats  *)
(* (sign, biased exponent, mantissa; subnormals, signed zeros, signed      *)
(* infinities, NaNs; round-to-nearest-even arithmetic).  The two widths    *)
(* are scaled down so that every bit pattern can be enumerated:            *)
(*   "f32" : 1 + 3 + 2 bits, companion integer i6, and max_ulps (the       *)
(*           code's u32, as wide as the narrow float) an unsigned 6-bit    *)
(*           integer, so that `max_ulps as i32` can wrap as in the code;   *)
(*   "f64" : 1 + 4 + 2 bits, companion integer i7, into which the          *)
(*           unsigned max_ulps always fits, as u32 fits into i64.          *)
(* In both, as in the real formats, the machine epsilon is a normal number *)
(* several binades above the subnormals, and floats a few ULPs apart are   *)
(* within a factor of two of each other.                                   *)
(***************************************************************************)
EXTENDS Integers, Sequences, FiniteSets, TLC

Types == {"f32", "f64"}

Pow2(n) == 2 ^ n

\* ------------------------------------------------------------------------
\* The float formats and their bit-level decoding
\* ------------------------------------------------------------------------

Format == [f32 |-> [ebits |-> 3, mbits |-> 2], f64 |-> [ebits |-> 4, mbits |-> 2]]

EBits(T) == Format[T].ebits

MBits(T) == Format[T].mbits

\* width of $T and of its companion integer $U
Width(T) == 1 + EBits(T) + MBits(T)

\* width of u32, the type of max_ulps: that of the narrow float
UlpsBits == Width("f32")

U32 == 0 .. (Pow2(UlpsBits) - 1)

Patterns(T) == 0 .. (Pow2(Width(T)) - 1)

SignBit(T, p) == p \div Pow2(Width(T) - 1)

ExpField(T, p) == (p \div Pow2(MBits(T))) % Pow2(EBits(T))

Mantissa(T, p) == p % Pow2(MBits(T))

ExpMax(T) == Pow2(EBits(T)) - 1

Bias(T) == Pow2(EBits(T) - 1) - 1

is_nan(T, p) == ExpField(T, p) = ExpMax(T) /\ Mantissa(T, p) # 0

is_infinite(T, p) == ExpField(T, p) = ExpMax(T) /\ Mantissa(T, p) = 0

is_finite(T, p) == ExpField(T, p) # ExpMax(T)

WithSign(T, s, p) == s * Pow2(Width(T) - 1) + p

ZERO(T) == 0

NEG_ZERO(T) == WithSign(T, 1, 0)

INFINITY(T) == ExpMax(T) * Pow2(MBits(T))

NEG_INFINITY(T) == WithSign(T, 1, INFINITY(T))

NAN(T) == INFINITY(T) + Pow2(MBits(T) - 1)

ONE(T) == Bias(T) * Pow2(MBits(T))

NEG_ONE(T) == WithSign(T, 1, ONE(T))

\* std::$T::EPSILON: the distance from 1.0 to the next representable value
EPSILON(T) == (Bias(T) - MBits(T)) * Pow2(MBits(T))

\* exponent shift and significand of a finite or infinite pattern:
\* |p| = Sig * 2^Sh in units of the smallest subnormal
Sh(T, p) == IF ExpField(T, p) = 0 THEN 0 ELSE ExpField(T, p) - 1

Sig(T, p) == IF ExpField(T, p) = 0 THEN Mantissa(T, p)
             ELSE Pow2(MBits(T)) + Mantissa(T, p)

\* magnitude in units of the smallest subnormal; an infinity lies above
\* every finite magnitude
Mag(T, p) == Sig(T, p) * Pow2(Sh(T, p))

SignedMag(T, p) == IF SignBit(T, p) = 1 THEN 0 - Mag(T, p) ELSE Mag(T, p)

\* the value of every pattern, computed once
ValTable == [T \in Types |-> [p \in Patterns(T) |-> SignedMag(T, p)]]

Val(T, p) == ValTable[T][p]

\* ------------------------------------------------------------------------
\* Rounding (round to nearest, ties to even) and the float operations
\* ------------------------------------------------------------------------

\* n / d rounded to the nearest integer, ties to even; n >= 0, d > 0
RoundDiv(n, d) ==
    LET qq == n \div d
        r == n % d
    IN IF 2 * r < d THEN qq
       ELSE IF 2 * r > d THEN qq + 1
       ELSE IF qq % 2 = 0 THEN qq ELSE qq + 1

\* the binade of n / d: the least e >= 0 with n / d < 2^(mbits + 1 + e)
RECURSIVE Binade(_, _, _, _)
Binade(T, n, d, e) ==
    IF n < d * Pow2(MBits(T) + 1 + e) THEN e ELSE Binade(T, n, d, e + 1)

\* the bit pattern (sign clear) of the magnitude s * 2^e, s < 2^(mbits + 2);
\* a magnitude above the largest finite one overflows to infinity
EncodeMag(T, s, e) ==
    LET s1 == IF s >= Pow2(MBits(T) + 1) THEN s \div 2 ELSE s
        e1 == IF s >= Pow2(MBits(T) + 1) THEN e + 1 ELSE e
    IN IF s1 < Pow2(MBits(T)) THEN s1
       ELSE IF e1 + 1 >= ExpMax(T) THEN INFINITY(T)
       ELSE (e1 + 1) * Pow2(MBits(T)) + (s1 - Pow2(MBits(T)))

\* the float nearest to n / d (in units of the smallest subnormal)
RoundMag(T, n, d) ==
    LET e == Binade(T, n, d, 0)
    IN EncodeMag(T, RoundDiv(n, d * Pow2(e)), e)

\* $T::abs
abs(T, p) == p % Pow2(Width(T) - 1)

\* a - b
difference(T, a, b) ==
    IF is_nan(T, a) \/ is_nan(T, b) THEN NAN(T)
    ELSE IF is_infinite(T, a)
         THEN (IF is_infinite(T, b) /\ SignBit(T, a) = SignBit(T, b)
               THEN NAN(T) ELSE a)
    ELSE IF is_infinite(T, b) THEN WithSign(T, 1 - SignBit(T, b), INFINITY(T))
    ELSE LET d == Val(T, a) - Val(T, b)
         IN IF d = 0
            THEN (IF SignBit(T, a) = 1 /\ SignBit(T, b) = 0
                  THEN NEG_ZERO(T) ELSE ZERO(T))
            ELSE IF d < 0 THEN WithSign(T, 1, RoundMag(T, 0 - d, 1))
            ELSE RoundMag(T, d, 1)

\* every difference, computed once
sub_table ==
    [T \in Types |-> [a \in Patterns(T) |-> [b \in Patterns(T) |-> difference(T, a, b)]]]

sub(T, a, b) == sub_table[T][a][b]

\* a * b
product(T, a, b) ==
    LET s == (SignBit(T, a) + SignBit(T, b)) % 2
        k == Sh(T, a) + Sh(T, b) - (Bias(T) + MBits(T) - 1)
        n == Sig(T, a) * Sig(T, b) * (IF k > 0 THEN Pow2(k) ELSE 1)
        d == IF k < 0 THEN Pow2(0 - k) ELSE 1
    IN IF is_nan(T, a) \/ is_nan(T, b) THEN NAN(T)
       ELSE IF is_infinite(T, a) \/ is_infinite(T, b)
            THEN (IF Mag(T, a) = 0 \/ Mag(T, b) = 0 THEN NAN(T)
                  ELSE WithSign(T, s, INFINITY(T)))
       ELSE WithSign(T, s, RoundMag(T, n, d))

\* every product, computed once
mul_table ==
    [T \in Types |-> [a \in Patterns(T) |-> [b \in Patterns(T) |-> product(T, a, b)]]]

mul(T, a, b) == mul_table[T][a][b]

\* the IEEE-754 comparisons: every comparison with a NaN is false, except !=
\* (mutant) equality of the bit patterns instead of the values
feq_bitwise(T, a, b) == a = b

feq(T, a, b) == ~is_nan(T, a) /\ ~is_nan(T, b) /\ Val(T, a) = Val(T, b)

fne(T, a, b) == ~feq(T, a, b)

fle(T, a, b) == ~is_nan(T, a) /\ ~is_nan(T, b) /\ Val(T, a) <= Val(T, b)

fgt(T, a, b) == ~is_nan(T, a) /\ ~is_nan(T, b) /\ Val(T, a) > Val(T, b)

\* $T::signum: 1.0 for positive values, +0.0 and +inf; -1.0 for negative
\* values, -0.0 and -inf; NaN for NaN
signum(T, p) ==
    IF is_nan(T, p) THEN NAN(T)
    ELSE IF SignBit(T, p) = 1 THEN NEG_ONE(T) ELSE ONE(T)

\* ------------------------------------------------------------------------
\* The companion integer type $U (two's complement, Width(T) bits)
\* ------------------------------------------------------------------------

IntMin(T) == 0 - Pow2(Width(T) - 1)

IntMax(T) == Pow2(Width(T) - 1) - 1

InRange(T, x) == IntMin(T) <= x /\ x <= IntMax(T)

\* the value of the low Width(T) bits of x, read as two's complement
Wrap(T, x) ==
    LET m == x % Pow2(Width(T))
    IN IF m > IntMax(T) THEN m - Pow2(Width(T)) ELSE m

\* std::mem::transmute::<$T, $U>
transmute(T, p) == Wrap(T, p)

\* max_ulps as $U
as_int(T, u) == Wrap(T, u)

\* ------------------------------------------------------------------------
\* impl ApproxEq for $T  (impl_float_approx_eq!)
\* ------------------------------------------------------------------------

default_epsilon(T) == EPSILON(T)

default_max_relative(T) == EPSILON(T)

\* (mutant) a budget of one more
default_max_ulps_more == 4 + 1

default_max_ulps == 4

\* abs_diff = $T::abs(self - other)
abs_diff_of(T, self, other) == abs(T, sub(T, self, other))

\* "For when the numbers are really close together": abs_diff <= epsilon
close_together(T, abs_diff, epsilon) == fle(T, abs_diff, epsilon)

\* "Handle oppsite infinities": abs_self == abs_other && abs_diff == abs_self
\* (mutant) the guard left out
opposite_infinities_none(T, abs_self, abs_other, abs_diff) == FALSE

opposite_infinities(T, abs_self, abs_other, abs_diff) ==
    feq(T, abs_self, abs_other) /\ feq(T, abs_diff, abs_self)

\* largest = if abs_other > abs_self { abs_other } else { abs_self }
\* (mutant) the scale taken from self alone
largest_of_self(T, abs_self, abs_other) == abs_self

largest_of(T, abs_self, abs_other) ==
    IF fgt(T, abs_other, abs_self) THEN abs_other ELSE abs_self

relative_eq(T, self, other, epsilon, max_relative) ==
    LET abs_diff == abs_diff_of(T, self, other)
        abs_self == abs(T, self)
        abs_other == abs(T, other)
        largest == largest_of(T, abs_self, abs_other)
    IN IF feq(T, self, other) THEN TRUE
       ELSE IF close_together(T, abs_diff, epsilon) THEN TRUE
       ELSE IF opposite_infinities(T, abs_self, abs_other, abs_diff) THEN FALSE
       ELSE fle(T, abs_diff, mul(T, largest, max_relative))

\* (mutant) the check inverted
signum_differs_inverted(T, self, other) ==
    feq(T, signum(T, self), signum(T, other))

\* "Trivial negative sign check": self.signum() != other.signum()
signum_differs(T, self, other) == fne(T, signum(T, self), signum(T, other))

\* int_self - int_other, as the mathematical difference
int_diff(T, self, other) == transmute(T, self) - transmute(T, other)

\* the absolute value of an in-range integer, as the mathematical value
int_abs(x) == IF x < 0 THEN 0 - x ELSE x

\* whether $U::abs(int_self - int_other) leaves the range of $U: the
\* subtraction, or the absolute value of its wrapped result
ulps_overflows(T, self, other) ==
    \/ ~InRange(T, int_diff(T, self, other))
    \/ ~InRange(T, int_abs(Wrap(T, int_diff(T, self, other))))

\* $U::abs(int_self - int_other) < max_ulps as $U, in wrapping arithmetic
ulps_within(T, self, other, max_ulps) ==
    Wrap(T, int_abs(Wrap(T, int_diff(T, self, other)))) < as_int(T, max_ulps)

\* ulps_eq: the value returned, and whether the integer arithmetic
\* overflowed on the way (a panic in a build with overflow checks, the
\* wrapped value otherwise)
ulps_eq(T, self, other, epsilon, max_ulps) ==
    LET abs_diff == abs_diff_of(T, self, other)
    IN IF close_together(T, abs_diff, epsilon)
       THEN [value |-> TRUE, overflow |-> FALSE]
       ELSE IF signum_differs(T, self, other)
       THEN [value |-> FALSE, overflow |-> FALSE]
       ELSE [value |-> ulps_within(T, self, other, max_ulps),
             overflow |-> ulps_overflows(T, self, other)]

\* ------------------------------------------------------------------------
\* trait ApproxEq: the provided methods
\* ------------------------------------------------------------------------

\* (mutant) the negation left out
relative_ne_same(T, self, other, epsilon, max_relative) ==
    relative_eq(T, self, other, epsilon, max_relative)

relative_ne(T, self, other, epsilon, max_relative) ==
    ~relative_eq(T, self, other, epsilon, max_relative)

ulps_ne(T, self, other, epsilon, max_ulps) ==
    LET r == ulps_eq(T, self, other, epsilon, max_ulps)
    IN [value |-> ~r.value, overflow |-> r.overflow]

\* ------------------------------------------------------------------------
\* struct Relative, struct Ulps
\* ------------------------------------------------------------------------

Relative_default(T) ==
    [epsilon |-> default_epsilon(T), max_relative |-> default_max_relative(T)]

Relative_epsilon(self, epsilon) ==
    [epsilon |-> epsilon, max_relative |-> self.max_relative]

\* (mutant) the argument stored in the wrong field
Relative_max_relative_swapped(self, max_relative) ==
    [epsilon |-> max_relative, max_relative |-> self.max_relative]

Relative_max_relative(self, max_relative) ==
    [epsilon |-> self.epsilon, max_relative |-> max_relative]

Relative_eq(T, self, lhs, rhs) ==
    relative_eq(T, lhs, rhs, self.epsilon, self.max_relative)

Relative_ne(T, self, lhs, rhs) ==
    relative_ne(T, lhs, rhs, self.epsilon, self.max_relative)

Ulps_default(T) ==
    [epsilon |-> default_epsilon(T), max_ulps |-> default_max_ulps]

Ulps_epsilon(self, epsilon) ==
    [epsilon |-> epsilon, max_ulps |-> self.max_ulps]

Ulps_max_ulps(self, max_ulps) ==
    [epsilon |-> self.epsilon, max_ulps |-> max_ulps]

Ulps_eq(T, self, lhs, rhs) ==
    ulps_eq(T, lhs, rhs, self.epsilon, self.max_ulps)

Ulps_ne(T, self, lhs, rhs) ==
    ulps_ne(T, lhs, rhs, self.epsilon, self.max_ulps)

\* ------------------------------------------------------------------------
\* The state machine: a configurator is created with the defaults, changed
\* by its builder methods any number of times, and consumed by eq or ne.
\* ------------------------------------------------------------------------

VARIABLES
    ty,         \* the operand type T of the configurator
    strategy,   \* "Relative" or "Ulps"
    cfg,        \* the configurator's fields
    lastEps,    \* history: << >>, or <<e>> after the last call epsilon(e)
    lastTol,    \* history: likewise for max_relative(.) / max_ulps(.)
    pc,         \* "built", or "done" once eq / ne has consumed it
    op,         \* the terminal call made: "none", "eq", "ne"
    lhs,        \* the operands of the terminal call
    rhs,
    result,     \* the boolean it returned
    panicked    \* whether it panicked instead of returning

vars == <<ty, strategy, cfg, lastEps, lastTol, pc, op, lhs, rhs, result, panicked>>

\* the arguments the calls are made with
EpsilonArgs(T) == {ZERO(T), INFINITY(T)}

MaxRelativeArgs(T) == {ONE(T)}

\* max_ulps: the smallest budgets, and the least u32 above the signed range
MaxSmallUlps == 1

MaxUlpsArgs == (0 .. MaxSmallUlps) \cup {Pow2(UlpsBits - 1)}

Init ==
    /\ ty \in Types
    /\ strategy \in {"Relative", "Ulps"}
    /\ cfg = IF strategy = "Relative" THEN Relative_default(ty) ELSE Ulps_default(ty)
    /\ lastEps = << >>
    /\ lastTol = << >>
    /\ pc = "built"
    /\ op = "none"
    /\ lhs = 0
    /\ rhs = 0
    /\ result = FALSE
    /\ panicked = FALSE

Building(s) == pc = "built" /\ strategy = s

RelativeEpsilon(e) ==
    /\ Building("Relative")
    /\ cfg' = Relative_epsilon(cfg, e)
    /\ lastEps' = <<e>>
    /\ UNCHANGED <<ty, strategy, lastTol, pc, op, lhs, rhs, result, panicked>>

RelativeMaxRelative(r) ==
    /\ Building("Relative")
    /\ cfg' = Relative_max_relative(cfg, r)
    /\ lastTol' = <<r>>
    /\ UNCHANGED <<ty, strategy, lastEps, pc, op, lhs, rhs, result, panicked>>

UlpsEpsilon(e) ==
    /\ Building("Ulps")
    /\ cfg' = Ulps_epsilon(cfg, e)
    /\ lastEps' = <<e>>
    /\ UNCHANGED <<ty, strategy, lastTol, pc, op, lhs, rhs, result, panicked>>

UlpsMaxUlps(u) ==
    /\ Building("Ulps")
    /\ cfg' = Ulps_max_ulps(cfg, u)
    /\ lastTol' = <<u>>
    /\ UNCHANGED <<ty, strategy, lastEps, pc, op, lhs, rhs, result, panicked>>

Terminal(o, a, b) ==
    /\ pc' = "done"
    /\ op' = o
    /\ lhs' = a
    /\ rhs' = b
    /\ UNCHANGED <<ty, strategy, cfg, lastEps, lastTol>>

RelativeEq(a, b) ==
    /\ Building("Relative")
    /\ Terminal("eq", a, b)
    /\ result' = Relative_eq(ty, cfg, a, b)
    /\ panicked' = FALSE

RelativeNe(a, b) ==
    /\ Building("Relative")
    /\ Terminal("ne", a, b)
    /\ result' = Relative_ne(ty, cfg, a, b)
    /\ panicked' = FALSE

\* the outcome of a call whose integer arithmetic may overflow: where it
\* overflows, the call panics if overflow checks are compiled in and returns
\* the wrapped value if they are not
Returns(r) ==
    \E overflow_checks \in (IF r.overflow THEN BOOLEAN ELSE {FALSE}) :
        /\ panicked' = overflow_checks
        /\ result' = (r.value /\ ~overflow_checks)

UlpsEq(a, b) ==
    /\ Building("Ulps")
    /\ Terminal("eq", a, b)
    /\ Returns(Ulps_eq(ty, cfg, a, b))

UlpsNe(a, b) ==
    /\ Building("Ulps")
    /\ Terminal("ne", a, b)
    /\ Returns(Ulps_ne(ty, cfg, a, b))

Next ==
    \/ Building("Relative") /\ \E e \in EpsilonArgs(ty) : RelativeEpsilon(e)
    \/ Building("Relative") /\ \E r \in MaxRelativeArgs(ty) : RelativeMaxRelative(r)
    \/ Building("Ulps") /\ \E e \in EpsilonArgs(ty) : UlpsEpsilon(e)
    \/ Building("Ulps") /\ \E u \in MaxUlpsArgs : UlpsMaxUlps(u)
    \/ Building("Relative") /\ \E a, b \in Patterns(ty) : RelativeEq(a, b)
    \/ Building("Relative") /\ \E a, b \in Patterns(ty) : RelativeNe(a, b)
    \/ Building("Ulps") /\ \E a, b \in Patterns(ty) : UlpsEq(a, b)
    \/ Building("Ulps") /\ \E a, b \in Patterns(ty) : UlpsNe(a, b)

Spec == Init /\ [][Next]_vars

\* ------------------------------------------------------------------------
\* Properties
\* ------------------------------------------------------------------------

Called(o) == pc = "done" /\ op = o

RelativeCalled(o) == Called(o) /\ strategy = "Relative"

UlpsCalled(o) == Called(o) /\ strategy = "Ulps"

\* 0 <= p, as floats
NonNegative(T, p) == fle(T, ZERO(T), p)

NonNegativeTolerances ==
    /\ NonNegative(ty, cfg.epsilon)
    /\ strategy = "Relative" => NonNegative(ty, cfg.max_relative)

\* no builder method was called: the configurator holds the defaults
Defaults == lastEps = << >> /\ lastTol = << >>

SameSignFinite(T, a, b) ==
    is_finite(T, a) /\ is_finite(T, b) /\ SignBit(T, a) = SignBit(T, b)

\* the distance in ULPs of two same-sign finite floats
UlpDistance(a, b) == IF a < b THEN b - a ELSE a - b

\* |a - b| <= e in exact arithmetic (e finite and non-negative)
ExactlyWithin(T, a, b, e) ==
    LET d == Val(T, a) - Val(T, b)
    IN (IF d < 0 THEN 0 - d ELSE d) <= Val(T, e)

\* the value eq returns for the operands the other way round
SwappedEq ==
    IF strategy = "Relative" THEN relative_eq(ty, rhs, lhs, cfg.epsilon, cfg.max_relative)
    ELSE ulps_eq(ty, rhs, lhs, cfg.epsilon, cfg.max_ulps).value

\* the value eq returns for the operands and tolerances of the call made
SameEq ==
    IF strategy = "Relative" THEN relative_eq(ty, lhs, rhs, cfg.epsilon, cfg.max_relative)
    ELSE ulps_eq(ty, lhs, rhs, cfg.epsilon, cfg.max_ulps).value

\* what the history of builder calls says the fields are
ExpectedEpsilon ==
    IF lastEps = << >> THEN default_epsilon(ty) ELSE lastEps[1]

ExpectedTolerance ==
    IF lastTol # << >> THEN lastTol[1]
    ELSE IF strategy = "Relative" THEN default_max_relative(ty)
    ELSE default_max_ulps

\* ulps_eq got past the epsilon short-circuit and the sign check
IntegerComparisonReached ==
    /\ pc = "done"
    /\ strategy = "Ulps"
    /\ ~close_together(ty, abs_diff_of(ty, lhs, rhs), cfg.epsilon)
    /\ ~signum_differs(ty, lhs, rhs)

\* C1 (as stated): eq of a non-NaN value with itself returns true under
\* either strategy, for all non-negative tolerances and every max_ulps,
\* 0 included, and in particular for an infinity.
C1_Reflexivity ==
    (Called("eq") /\ lhs = rhs /\ ~is_nan(ty, lhs) /\ NonNegativeTolerances)
        => (result /\ ~panicked)

\* C2: whenever either operand is a NaN (also a NaN compared with the very
\* same NaN), eq returns false under either strategy and for every
\* tolerance, and does not panic.
C2_NanRejection ==
    (Called("eq") /\ (is_nan(ty, lhs) \/ is_nan(ty, rhs)))
        => (~result /\ ~panicked)

C2_Witness ==
    /\ UlpsCalled("eq")
    /\ is_nan(ty, lhs)
    /\ rhs = lhs
    /\ cfg.epsilon = ZERO(ty)
    /\ cfg.max_ulps = Pow2(UlpsBits - 1)
    /\ ~result

\* C3 (as stated): for a finite a > 0 and its k-th successor b (finite;
\* for positive finite floats the successor is the next bit pattern),
\* ulps_eq(a, b, 0, U) is true exactly if k < U.
C3_UlpMonotonicity ==
    (/\ UlpsCalled("eq")
     /\ cfg.epsilon = ZERO(ty)
     /\ 1 <= lhs
     /\ lhs <= rhs
     /\ rhs < INFINITY(ty))
        => (~panicked /\ result = (rhs - lhs < cfg.max_ulps))

\* C4 (as stated): with the default tolerances, two finite floats of the
\* same sign are not ulps-equal when they are exactly 4 ULPs apart, and are
\* when they are exactly 3 ULPs apart.
C4_DefaultBudget_Original ==
    (UlpsCalled("eq") /\ Defaults /\ SameSignFinite(ty, lhs, rhs))
        => /\ UlpDistance(lhs, rhs) = 4 => ~result
           /\ UlpDistance(lhs, rhs) = 3 => result

\* C4 (amended): with the default tolerances, two finite floats of the same
\* sign are ulps-equal when they are exactly 3 ULPs apart; when they are
\* exactly 4 ULPs apart they are ulps-equal exactly if |a - b| is at most
\* the machine epsilon (the absolute short-circuit), and not otherwise.
C4_DefaultBudget ==
    (UlpsCalled("eq") /\ Defaults /\ SameSignFinite(ty, lhs, rhs))
        => /\ ~panicked
           /\ UlpDistance(lhs, rhs) = 3 => result
           /\ UlpDistance(lhs, rhs) = 4 =>
                  (result = ExactlyWithin(ty, lhs, rhs, EPSILON(ty)))

C4_Witness ==
    /\ UlpsCalled("eq")
    /\ Defaults
    /\ SameSignFinite(ty, lhs, rhs)
    /\ UlpDistance(lhs, rhs) = 4
    /\ lhs # ZERO(ty)
    /\ rhs # ZERO(ty)
    /\ result

\* C5: eq returns the same value for (a, b) as for (b, a), under either
\* strategy, for all operands and tolerances.
C5_Symmetry ==
    (Called("eq") /\ ~panicked) => (result = SwappedEq)

C5_Witness ==
    /\ RelativeCalled("eq")
    /\ cfg.epsilon = ZERO(ty)
    /\ is_finite(ty, lhs)
    /\ is_finite(ty, rhs)
    /\ fgt(ty, abs(ty, rhs), abs(ty, lhs))
    /\ result

\* C6: ne returns the negation of what eq returns for the same operands and
\* the same fields, under either strategy.
C6_Negation ==
    (Called("ne") /\ ~panicked) => (result = ~SameEq)

C6_Witness ==
    /\ RelativeCalled("ne")
    /\ lhs # rhs
    /\ ~is_nan(ty, lhs)
    /\ ~is_nan(ty, rhs)
    /\ ~result

\* C7: relative eq of the two infinities of opposite sign, in either order,
\* returns false for every finite epsilon and every finite max_relative.
C7_OppositeInfinity ==
    (/\ RelativeCalled("eq")
     /\ {lhs, rhs} = {INFINITY(ty), NEG_INFINITY(ty)}
     /\ is_finite(ty, cfg.epsilon)
     /\ is_finite(ty, cfg.max_relative))
        => ~result

C7_Witness ==
    /\ RelativeCalled("eq")
    /\ lhs = NEG_INFINITY(ty)
    /\ rhs = INFINITY(ty)
    /\ cfg.epsilon = ZERO(ty)
    /\ cfg.max_relative = ONE(ty)

\* C8: after any sequence of builder calls each field holds the argument of
\* the last call of its own setter, or the type's default if that setter was
\* never called (so a setter leaves the other field alone and the order of
\* the calls does not matter), and eq returns relative_eq / ulps_eq of the
\* operands with these field values.
C8_Builders ==
    /\ cfg.epsilon = ExpectedEpsilon
    /\ strategy = "Relative" => cfg.max_relative = ExpectedTolerance
    /\ strategy = "Ulps" => cfg.max_ulps = ExpectedTolerance
    /\ (RelativeCalled("eq") /\ ~panicked) =>
           result = relative_eq(ty, lhs, rhs, ExpectedEpsilon, ExpectedTolerance)
    /\ (UlpsCalled("eq") /\ ~panicked) =>
           result = ulps_eq(ty, lhs, rhs, ExpectedEpsilon, ExpectedTolerance).value

C8_Witness ==
    /\ RelativeCalled("eq")
    /\ lastEps = <<ZERO(ty)>>
    /\ lastTol = <<ONE(ty)>>
    /\ lhs # rhs
    /\ result

\* C9 (as stated): ulps_eq is monotone in its tolerances: if it is true for
\* (epsilon, max_ulps) it is true for every epsilon' >= epsilon and every
\* max_ulps' >= max_ulps of the whole range of u32.
C9_Monotone ==
    (UlpsCalled("eq") /\ ~panicked /\ result) =>
        \A u \in U32, e \in EpsilonArgs(ty) \cup {cfg.epsilon} :
            (cfg.max_ulps <= u /\ fle(ty, cfg.epsilon, e))
                => ulps_eq(ty, lhs, rhs, e, u).value

\* C10: whenever ulps_eq reaches the integer comparison, the difference of
\* the two bit patterns read as signed integers, and its absolute value,
\* are in the range of the signed integer type: no call overflows or
\* panics.
C10_NoOverflow ==
    (pc = "done" /\ strategy = "Ulps") =>
        /\ ~panicked
        /\ IntegerComparisonReached =>
               /\ InRange(ty, transmute(ty, lhs) - transmute(ty, rhs))
               /\ InRange(ty, int_abs(transmute(ty, lhs) - transmute(ty, rhs)))

C10_Witness ==
    /\ IntegerComparisonReached
    /\ op = "eq"
    /\ lhs = NEG_ZERO(ty)
    /\ rhs = WithSign(ty, 1, INFINITY(ty) - 1)
    /\ ~result

====
